---- MODULE Spec2Model ----
(***************************************************************************)
(* Domain-event dispatch core of cryptic-pets-backend:                     *)
(*   EventBus            src/domain/common/events.py                       *)
(*   EventPublisher      src/domain/common/event_publisher.py              *)
(*   BaseEntity events   src/domain/base_entity.py                         *)
(*   repositories        src/infrastructure/persistence/postgres/...       *)
(*   session transaction src/infrastructure/dependencies/database.py       *)
(*                                                                         *)
(* One caller (an asyncio task) drives the bus.  A publish call is         *)
(* suspended only inside `await handler.handle(event)`; everything between *)
(* two such awaits runs without interruption, so one step of the model     *)
(* goes from one handler invocation to the next (or to the return).        *)
(*                                                                         *)
(* The specifications of the module:                                  *)
(*   Spec           the dispatch machine: one bus, its handlers, the       *)
(*                  publisher, the repositories and the session            *)
(*   SpecPublisher  the publisher and the aggregates' event lists over a   *)
(*                  bus that records the calls made to it                  *)
(*   SpecBuses      several EventBus objects and the module singletons     *)
(*   SpecBootstrap  the singletons as the application uses them: the       *)
(*                  bootstrap registration, the decorator, the default     *)
(*                  and the injected publisher                             *)
(*   SpecPet        one Pet aggregate and its business methods             *)
(*   SpecLive       one dispatch, with registry calls and business methods *)
(*                  running while a handler is suspended                   *)
(*   SpecCreate     the pet-creation request: the command handler or the   *)
(*                  domain service, and the repository's create            *)
(* Each leaves the variables it does not use at their initial values.      *)
(***************************************************************************)
EXTENDS Integers, Sequences, FiniteSets, TLC

\* ---------------------------------------------------------------- bounds
MaxSubs == 3        \* registry entries in total
MaxPending == 2     \* pending events per aggregate
MaxRaises == 1      \* handler invocations that raise an Exception, per call
MaxBuses == 3       \* EventBus objects constructed
MaxBusSubs == 2     \* registry entries over all EventBus objects
MaxRuns == 2        \* runs of the bootstrap registration on one bus
MaxOps == 2         \* calls made while one publish call is in flight
MaxCreates == 3     \* rows the pets table takes

\* -------------------------------------------------------------- universe
\* Event classes.  "U" is a subclass of "T"; "T" stands for any class with a
\* subclass, DomainEvent itself included.
EventTypes == {"T", "U"}
HandlerIds == {"H1", "H2"}
Aggregates == {"a1"}
RepoKinds == {"pet", "user", "pet_record"}
None == "None"
\* The aggregates a batch publish works on, and the list objects around
\* them: the _domain_events list of each, and the list a caller holds.
BatchAggregates == {"a1", "a2"}
ListIds == BatchAggregates \cup {"copy"}
\* The modules that keep a singleton bus: domain.common.events (_event_bus)
\* and infrastructure.dependencies.events (_event_bus_instance).
Modules == {"domain", "infra"}
\* What refers to a bus from module level: the two singletons, and the
\* _event_bus attribute of domain.common.event_publisher._event_publisher.
Refs == Modules \cup {"publisher"}
\* Owner ids, and what else a caller may pass for one: the empty string
\* and None.
OwnerIds == {"u1", "u2"}
OwnerArgs == OwnerIds \cup {"", None}
\* The id of a Pet: a string, or None for a pet that was not stored yet
\* (BaseEntity.id: str | None = None).
PetIds == {"p1", None}
\* Morphology ids; None clears the morphology.
MorphArgs == {"m1", None}
\* PetModel.id of the rows, in the order they are inserted (each a fresh
\* uuid4 string).
RowIds == <<"p1", "p2", "p3", "p4", "p5">>
\* The two places that create a pet: PetDomainService, and CreatePetHandler
\* when it was given no domain service.
CreatePaths == {"service", "handler"}
\* What `await handler.handle(event)` can do: return, raise an Exception
\* subclass, or raise a BaseException that is no Exception
\* (asyncio.CancelledError, KeyboardInterrupt, SystemExit).
Outcomes == {"ok", "exception", "base_exception"}

VARIABLES
    handlers,   \* EventBus._handlers: dict event type -> list of handlers
    pending,    \* BaseEntity._domain_events of each aggregate
    pc,         \* the caller: "idle", "in_handler", "returned", "raised"
    kind,       \* the call the caller made
    target,     \* the aggregate handed to publish_events_from_aggregate
    queue,      \* the list being iterated by publish_all
    ei,         \* position of publish_all's loop in queue
    hi,         \* position of publish's loop in the handler list
    log,        \* handle() invocations of the current call, in call order
    repo,       \* the repository operation of the current unit of work
    tx,         \* the session transaction of get_db_session
    before      \* <<the registry as the registry call just made found it>>

\* The variables of the dispatch machine.
core == <<handlers, pending, pc, kind, target, queue, ei, hi, log, repo, tx, before>>

\* An EventPublisher at work on aggregates, over a bus that records the
\* calls made to it (SpecPublisher).
VARIABLES
    lists,      \* the list objects: each aggregate's _domain_events, and one
                \* more list a caller got from get_domain_events()
    held,       \* the list object the caller got from get_domain_events()
    bus_calls,  \* the calls the publisher made to its bus, in order
    batch,      \* the aggregates handed to the publisher call
    bi,         \* position of publish_events_from_aggregates' loop in batch
    ppc,        \* the publisher's caller: "idle", "in_bus", "returned", "raised"
    pkind       \* the call that caller made last

pubv == <<lists, held, bus_calls, batch, bi, ppc, pkind>>

\* EventBus instances and the two module-level singletons (SpecBuses).
VARIABLES
    buses,      \* the _handlers dicts of the EventBus objects, by dict id
    globals,    \* _event_bus / _event_bus_instance of the two modules, and
                \* the bus the global EventPublisher has resolved
    made,       \* how many EventBus objects were constructed (ids 1..made)
    bret        \* what the bus call made last returned or invoked

busv == <<buses, globals, made, bret>>

\* A Pet aggregate and the business methods called on it (SpecPet).
VARIABLES
    pid,        \* pet.id: None until the pet is stored
    owner,      \* pet.owner_id
    morph,      \* pet.morphology_id
    pevents,    \* pet._domain_events
    pret        \* the call made last on the pet, and how it ended

petv == <<pid, owner, morph, pevents, pret>>

\* A dispatch with other calls made while a handler is suspended (SpecLive).
VARIABLES
    lreg,       \* EventBus._handlers: the lists the dict holds, by event class
    lcur,       \* the list object `for handler in handlers` runs over: the
                \* dict's list of the event's class (live), or a list the dict
                \* does not hold, with its items
    lpend,      \* _domain_events of the aggregate
    lq,         \* the events handed to publish_all
    lei,        \* position of publish_all's loop in lq
    lhi,        \* how many items the list iterator has taken
    lpc,        \* the publishing task: "idle", "in_handler", "returned", "raised"
    lkind,      \* the call the publishing task made
    llog,       \* handle() invocations of the call, in call order
    lstart,     \* the handlers registered for the event's class when
                \* publish(event) was called
    llate,      \* the events added to the aggregate while the call was in flight
    lclr,       \* whether clear_handlers() returned while the call was in flight
    lops        \* how many calls were made while the call was in flight

livev == <<lreg, lcur, lpend, lq, lei, lhi, lpc, lkind, llog, lstart, llate, lclr, lops>>

\* One request that creates a pet (SpecCreate).
VARIABLES
    cpc,        \* the request: "idle", "built" (the Pet is constructed and
                \* repository.create is awaited), "created" (create has
                \* returned), "returned" (the pet is returned to the router)
    cpath,      \* which of CreatePaths serves the request
    cpet,       \* the Pet object the request holds
    cdb,        \* the rows of the pets table: owner_id by position
    cdisp,      \* the events handed to the event bus
    cret        \* how the request made last ended

createv == <<cpc, cpath, cpet, cdb, cdisp, cret>>

aux == <<petv, livev, createv>>

\* The variables the dispatch machine never touches.
ext == <<pubv, busv, aux>>
vars == <<core, pubv, busv, aux>>

\* ------------------------------------------------------- class hierarchy
\* The direct base class of an event class.
SuperOf(t) == IF t = "U" THEN "T" ELSE None

\* ------------------------------------------------------------- registry
\* self._handlers.get(event_type, [])
GetHandlers(reg, t) == IF t \in DOMAIN reg THEN reg[t] ELSE <<>>

\* Variant: lookup by isinstance, so that handlers of a base class match too.
HandlersForIsinstance(reg, t) ==
    GetHandlers(reg, t)
        \o (IF SuperOf(t) # None THEN GetHandlers(reg, SuperOf(t)) ELSE <<>>)

\* publish: event_type = type(event); handlers = self._handlers.get(event_type, [])
HandlersFor(reg, t) == GetHandlers(reg, t)

RECURSIVE SumLen(_, _)
SumLen(reg, S) ==
    IF S = {} THEN 0
    ELSE LET t == CHOOSE x \in S : TRUE
         IN Len(reg[t]) + SumLen(reg, S \ {t})

\* get_handlers_count(): sum(len(handlers) for handlers in self._handlers.values())
TotalCount(reg) == SumLen(reg, DOMAIN reg)

\* Variant: a handler already in the list is not appended again.
SubscribeOnce(reg, t, h) ==
    IF \E i \in 1..Len(GetHandlers(reg, t)) : GetHandlers(reg, t)[i] = h
    THEN reg
    ELSE [x \in DOMAIN reg \cup {t} |->
             IF x = t THEN Append(GetHandlers(reg, t), h) ELSE reg[x]]
\* Variant: the handler is put at the head of the list.
SubscribeFirst(reg, t, h) ==
    [x \in DOMAIN reg \cup {t} |->
        IF x = t THEN <<h>> \o GetHandlers(reg, t) ELSE reg[x]]
\* subscribe: create the list if the key is missing, then append.
SubscribeReg(reg, t, h) ==
    [x \in DOMAIN reg \cup {t} |->
        IF x = t THEN Append(GetHandlers(reg, t), h) ELSE reg[x]]

\* list.remove(h): drop the first occurrence; ValueError when there is none.
FirstIndex(s, h) == CHOOSE i \in 1..Len(s) : s[i] = h /\ \A j \in 1..(i-1) : s[j] # h
RemoveFirst(s, h) ==
    LET i == FirstIndex(s, h)
    IN SubSeq(s, 1, i-1) \o SubSeq(s, i+1, Len(s))

\* Variant: the handler is never found, and the ValueError is swallowed.
UnsubscribeIgnored(reg, t, h) == reg
\* Variant: the latest occurrence is removed instead of the earliest.
LastIndex(s, h) == CHOOSE i \in 1..Len(s) : s[i] = h /\ \A j \in (i+1)..Len(s) : s[j] # h
UnsubscribeLast(reg, t, h) ==
    IF t \in DOMAIN reg /\ \E i \in 1..Len(reg[t]) : reg[t][i] = h
    THEN [reg EXCEPT ![t] = SubSeq(@, 1, LastIndex(@, h) - 1)
                               \o SubSeq(@, LastIndex(@, h) + 1, Len(@))]
    ELSE reg
\* unsubscribe: only when the key exists; a missing handler is ignored.
UnsubscribeReg(reg, t, h) ==
    IF t \in DOMAIN reg /\ \E i \in 1..Len(reg[t]) : reg[t][i] = h
    THEN [reg EXCEPT ![t] = RemoveFirst(reg[t], h)]
    ELSE reg

\* get_handlers_count(event_type): len(self._handlers.get(event_type, []))
GetHandlersCount(reg, t) == Len(GetHandlers(reg, t))

\* Variant: has_handlers as `event_type in self._handlers`.
HasKey(reg, t) == t \in DOMAIN reg
\* has_handlers: bool(self._handlers.get(event_type))
HasHandlers(reg, t) == GetHandlers(reg, t) # <<>>

\* {}: a dict without keys
EmptyRegistry == [x \in {} |-> <<>>]
\* Variant: clear_handlers leaves the dict as it is.
ClearSkipped(reg) == reg
\* clear_handlers: self._handlers.clear()
ClearReg(reg) == EmptyRegistry

\* ---------------------------------------------------------------- events
Event(n, t) == [id |-> n, type |-> t]

UsedIds == UNION {{pending[a][i].id : i \in 1..Len(pending[a])} : a \in Aggregates}
\* event_id = str(uuid4()): a value no live event carries.
MaxEvents == MaxPending * Cardinality(Aggregates)
FreshId == CHOOSE n \in (1..MaxEvents) \ UsedIds :
              \A m \in (1..MaxEvents) \ UsedIds : n <= m

\* Events constructed by a caller that publishes them directly.
DirectEvents(ts) == [k \in 1..Len(ts) |-> Event(MaxEvents + k, ts[k])]

\* The lists handed to publish_all directly: the empty list and the pairs.
TypeLists == {<<>>} \cup [1..2 -> EventTypes]

\* ------------------------------------------------------------ aggregates
\* mapper.to_domain(model) builds a new entity; BaseEntity.__init__ gives it
\* an empty _domain_events list.
Fresh == "fresh"

\* get_domain_events(): a copy of the list.
GetDomainEvents(pend, a) == IF a = Fresh THEN <<>> ELSE pend[a]

\* Variant: the publisher forgets to clear.
ClearDoesNothing(pend, a) == pend
\* clear_domain_events(): self._domain_events.clear()
ClearDomainEvents(pend, a) ==
    IF a = Fresh THEN pend ELSE [pend EXCEPT ![a] = <<>>]

\* --------------------------------------------------------------- dispatch
Invocation(h, e) == [handler |-> h, event |-> e, outcome |-> "running"]

\* How many invocations of the call ended in an Exception so far.
Raised(lg) == Cardinality({i \in 1..Len(lg) : lg[i].outcome = "exception"})

\* except Exception: which outcomes of handle() the bus swallows.
\* Variant: no except clause around handle().
CatchesNothing(o) == o = "ok"
Catches(o) == o \in {"ok", "exception"}

\* Variant: the handlers from position i on are all started at once
\* (asyncio.gather) instead of one after the other.
StartedTogether(hs, i, e) == [k \in 1..(Len(hs) + 1 - i) |-> Invocation(hs[i + k - 1], e)]

\* Variant: the loop always takes the first handler of the list.
HandlerAtFirst(hs, i) == hs[1]
\* Variant: the loop runs over the list backwards.
HandlerAtReversed(hs, i) == hs[Len(hs) + 1 - i]
\* for handler in handlers: the i-th handler the loop takes.
HandlerAt(hs, i) == hs[i]

\* await handler.handle(event): the invocations started when the loop
\* reaches handler i of hs.
Started(hs, i, e) == <<Invocation(HandlerAt(hs, i), e)>>

\* Variant: publish_all returns after its first event.
NextEventStopsEarly(reg, q, i) ==
    IF i = 1 /\ Len(q) >= 1 /\ HandlersFor(reg, q[1].type) # <<>>
    THEN 1
    ELSE Len(q) + 1
\* publish_all's loop: the first event at or after position i that has a
\* handler to invoke (publish of an event without handlers returns at once).
RECURSIVE NextEvent(_, _, _)
NextEvent(reg, q, i) ==
    IF i > Len(q) THEN i
    ELSE IF HandlersFor(reg, q[i].type) # <<>> THEN i
    ELSE NextEvent(reg, q, i + 1)

NoRepo == [kind |-> "none", entity |-> None, status |-> "none", notified |-> FALSE]

TypeOK ==
    /\ DOMAIN handlers \subseteq EventTypes
    /\ \A t \in DOMAIN handlers :
          \A i \in 1..Len(handlers[t]) : handlers[t][i] \in HandlerIds
    /\ \A a \in Aggregates : Len(pending[a]) <= MaxPending
    /\ pc \in {"idle", "in_handler", "returned", "raised"}
    /\ kind \in {"none", "subscribe", "unsubscribe", "clear_handlers",
                 "publish", "publish_all", "from_aggregate", "repo_write"}
    /\ tx \in {"none", "open", "committed", "rolledback"}
    /\ before # <<>> => pc = "returned" /\ kind \in {"subscribe", "unsubscribe", "clear_handlers"}

NoBusCall == [op |-> "none", bus |-> 0, type |-> None, invoked |-> <<>>]
NoPetCall == [op |-> "none", arg |-> None, result |-> "ok"]

PublisherInit ==
    /\ lists = [l \in ListIds |-> <<>>]
    /\ held = None
    /\ bus_calls = <<>>
    /\ batch = <<>>
    /\ bi = 0
    /\ ppc = "idle"
    /\ pkind = "none"

BusesInit ==
    /\ buses = <<>>
    /\ globals = [m \in Refs |-> 0]
    /\ made = 0
    /\ bret = NoBusCall

\* Pet(id="p1", owner_id="u1", ...): a stored pet, nothing pending.
PetInit ==
    /\ pid = "p1"
    /\ owner = "u1"
    /\ morph = None
    /\ pevents = <<>>
    /\ pret = NoPetCall

NoList == [live |-> FALSE, items |-> <<>>]

LiveInit ==
    /\ lreg = EmptyRegistry
    /\ lcur = NoList
    /\ lpend = <<>>
    /\ lq = <<>>
    /\ lei = 0
    /\ lhi = 0
    /\ lpc = "idle"
    /\ lkind = "none"
    /\ llog = <<>>
    /\ lstart = <<>>
    /\ llate = <<>>
    /\ lclr = FALSE
    /\ lops = 0

\* No Pet object is held.
NoPet == [id |-> None, owner_id |-> None, events |-> <<>>]
NoRequest == [path |-> "none", result |-> "none"]

CreateInit ==
    /\ cpc = "idle"
    /\ cpath = "none"
    /\ cpet = NoPet
    /\ cdb = <<>>
    /\ cdisp = {}
    /\ cret = NoRequest

Init ==
    /\ PublisherInit
    /\ BusesInit
    /\ PetInit
    /\ LiveInit
    /\ CreateInit
    /\ handlers = EmptyRegistry
    /\ pending = [a \in Aggregates |-> <<>>]
    /\ pc = "idle"
    /\ kind = "none"
    /\ target = None
    /\ queue = <<>>
    /\ ei = 0
    /\ hi = 0
    /\ log = <<>>
    /\ repo = NoRepo
    /\ tx = "none"
    /\ before = <<>>

\* The caller is not inside a call: no publish is in flight and no unit of
\* work is open.
Quiet == pc = "idle"

frame == <<pc, kind, target, queue, ei, hi, log, repo, tx, before>>

\* The call frame of a finished call is dropped.
ResetFrame ==
    /\ pc' = "idle"
    /\ kind' = "none"
    /\ target' = None
    /\ queue' = <<>>
    /\ ei' = 0
    /\ hi' = 0
    /\ log' = <<>>
    /\ before' = <<>>

\* Outside a unit of work there is no session and no repository call.
NoUnitOfWork == tx' = "none" /\ repo' = NoRepo

\* ---------------------------------------------------- the publish machine
\* Which aggregate a repository passes to the publisher after its flush.
\* Pet and User repositories pass mapper.to_domain(model); the pet record
\* repository passes the entity it was given.
PublishTarget(rk, a) == IF rk = "pet_record" THEN a ELSE Fresh

\* The call returns normally.  publish_events_from_aggregate clears the
\* aggregate after publish_all, and only when it had events (q # <<>>).
Return(k, tgt, q, lg, r) ==
    /\ pc' = "returned"
    /\ kind' = k
    /\ target' = tgt
    /\ queue' = q
    /\ ei' = Len(q) + 1
    /\ hi' = 0
    /\ log' = lg
    /\ pending' = IF k \in {"from_aggregate", "repo_write"} /\ q # <<>>
                  THEN ClearDomainEvents(pending, tgt)
                  ELSE pending
    /\ repo' = IF k = "repo_write"
               THEN [r EXCEPT !.status = "ok", !.notified = (lg # <<>>)]
               ELSE r
    /\ UNCHANGED <<before, ext>>

\* publish reaches `await handler.handle(event)` for handler i of event j.
Invoke(k, tgt, q, j, i, lg, r) ==
    /\ pc' = "in_handler"
    /\ kind' = k
    /\ target' = tgt
    /\ queue' = q
    /\ ei' = j
    /\ hi' = i
    /\ log' = lg \o Started(HandlersFor(handlers, q[j].type), i, q[j])
    /\ pending' = pending
    /\ repo' = r
    /\ UNCHANGED <<before, ext>>

\* publish_all(q): for event in events: await self.publish(event)
PublishAllFrom(k, tgt, q, r) ==
    LET j == NextEvent(handlers, q, 1)
    IN IF j <= Len(q)
       THEN Invoke(k, tgt, q, j, 1, <<>>, r)
       ELSE Return(k, tgt, q, <<>>, r)

\* publish_events_from_aggregate: events = copy; if events: publish_all; clear
PublishEventsFromAggregate(k, tgt, r) ==
    LET events == GetDomainEvents(pending, tgt)
    IN IF events # <<>>
       THEN PublishAllFrom(k, tgt, events, r)
       ELSE Return(k, tgt, <<>>, <<>>, r)

\* ----------------------------------------------------------------- actions
\* A registry call is synchronous: it returns to its caller at once, with
\* nothing dispatched.
RegistryCall(k) ==
    /\ pc' = "returned"
    /\ kind' = k
    /\ before' = <<handlers>>
    /\ UNCHANGED <<pending, target, queue, ei, hi, log, repo, tx, ext>>

\* EventBus.subscribe(event_type, handler)
Subscribe(t, h) ==
    /\ Quiet
    /\ TotalCount(handlers) < MaxSubs
    /\ handlers' = SubscribeReg(handlers, t, h)
    /\ RegistryCall("subscribe")

\* EventBus.unsubscribe(event_type, handler)
Unsubscribe(t, h) ==
    /\ Quiet
    /\ handlers' = UnsubscribeReg(handlers, t, h)
    /\ RegistryCall("unsubscribe")

\* EventBus.clear_handlers()
ClearHandlers ==
    /\ Quiet
    /\ handlers' = ClearReg(handlers)
    /\ RegistryCall("clear_handlers")

\* AggregateRoot.add_domain_event(event), called by a business method
AddDomainEvent(a, t) ==
    /\ Quiet
    /\ Len(pending[a]) < MaxPending
    /\ (1..MaxEvents) \ UsedIds # {}
    /\ pending' = [pending EXCEPT ![a] = Append(@, Event(FreshId, t))]
    /\ UNCHANGED <<handlers, frame, ext>>

\* EventBus.publish(event) / EventPublisher.publish_event(event)
Publish(t) ==
    /\ Quiet
    /\ PublishAllFrom("publish", None, DirectEvents(<<t>>), NoRepo)
    /\ tx' = "none"
    /\ UNCHANGED handlers

\* EventBus.publish_all(events) / EventPublisher.publish_events(events)
PublishAll(ts) ==
    /\ Quiet
    /\ PublishAllFrom("publish_all", None, DirectEvents(ts), NoRepo)
    /\ tx' = "none"
    /\ UNCHANGED handlers

\* EventPublisher.publish_events_from_aggregate(aggregate)
PublishFromAggregate(a) ==
    /\ Quiet
    /\ PublishEventsFromAggregate("from_aggregate", a, NoRepo)
    /\ tx' = "none"
    /\ UNCHANGED handlers

\* The suspended handler finishes with outcome o and publish goes on: the
\* next handler of the same event, else the next event that has handlers,
\* else the return (and, for an aggregate, the clear).  An outcome that
\* `except Exception` does not catch leaves publish, publish_all, the
\* publisher and the repository method (whose own `except Exception` does
\* not catch it either).
HandlerCompletes(o) ==
    /\ pc = "in_handler"
    /\ o = "exception" => Raised(log) < MaxRaises
    /\ LET lg == [log EXCEPT ![Len(log)].outcome = o]
           hs == HandlersFor(handlers, queue[ei].type)
           j  == NextEvent(handlers, queue, ei + 1)
       IN IF ~Catches(o)
          THEN /\ pc' = "raised"
               /\ log' = lg
               /\ repo' = IF kind = "repo_write"
                          THEN [repo EXCEPT !.status = "failed", !.notified = TRUE]
                          ELSE repo
               /\ UNCHANGED <<pending, kind, target, queue, ei, hi, before, ext>>
          ELSE IF hi + 1 <= Len(hs)
          THEN Invoke(kind, target, queue, ei, hi + 1, lg, repo)
          ELSE IF j <= Len(queue)
          THEN Invoke(kind, target, queue, j, 1, lg, repo)
          ELSE Return(kind, target, queue, lg, repo)
    /\ UNCHANGED <<handlers, tx>>

\* A repository create/update inside the request's session: flush, then
\* publish from PublishTarget.  The session is still uncommitted.
RepoWrite(rk, a, flushOk) ==
    /\ Quiet
    /\ tx' = "open"
    /\ IF flushOk
       THEN PublishEventsFromAggregate("repo_write", PublishTarget(rk, a),
                [kind |-> rk, entity |-> a, status |-> "running", notified |-> FALSE])
       ELSE /\ pc' = "raised"
            /\ kind' = "repo_write"
            /\ target' = None
            /\ queue' = <<>>
            /\ ei' = 0
            /\ hi' = 0
            /\ log' = <<>>
            /\ repo' = [kind |-> rk, entity |-> a, status |-> "failed", notified |-> FALSE]
            /\ pending' = pending
            /\ UNCHANGED <<before, ext>>
    /\ UNCHANGED handlers

\* get_db_session: leaving `async with session.begin()` without an error
\* commits the transaction.
Commit ==
    /\ pc = "returned"
    /\ tx = "open"
    /\ repo.status = "ok"
    /\ tx' = "committed"
    /\ UNCHANGED <<handlers, pending, pc, kind, target, queue, ei, hi, log, repo, before, ext>>

\* get_db_session: an error raised in the request after the flush (by the
\* repository, by later code of the request, or by the commit itself)
\* rolls the transaction back.
Rollback ==
    /\ pc \in {"returned", "raised"}
    /\ tx = "open"
    /\ tx' = "rolledback"
    /\ UNCHANGED <<handlers, pending, pc, kind, target, queue, ei, hi, log, repo, before, ext>>

\* The caller resumes after its awaited call returned or raised (and, for a
\* unit of work, after the session was committed or rolled back and closed).
Resume ==
    /\ pc \in {"returned", "raised"}
    /\ tx # "open"
    /\ ResetFrame
    /\ NoUnitOfWork
    /\ UNCHANGED <<handlers, pending, ext>>

Next ==
    \/ \E t \in EventTypes, h \in HandlerIds : Subscribe(t, h)
    \/ \E t \in EventTypes, h \in HandlerIds : Unsubscribe(t, h)
    \/ ClearHandlers
    \/ \E a \in Aggregates, t \in EventTypes : AddDomainEvent(a, t)
    \/ \E t \in EventTypes : Publish(t)
    \/ \E ts \in TypeLists : PublishAll(ts)
    \/ \E a \in Aggregates : PublishFromAggregate(a)
    \/ \E o \in Outcomes : HandlerCompletes(o)
    \/ \E rk \in RepoKinds, a \in Aggregates, ok \in BOOLEAN : RepoWrite(rk, a, ok)
    \/ Commit
    \/ Rollback
    \/ Resume

Spec == Init /\ [][Next]_vars

\* ================================ the publisher over a recording bus
\* The event number n appended to aggregate a.
PendingEvent(a, n) == [src |-> a, n |-> n]
\* An event the holder of a returned list puts into it.
ForeignEvent == [src |-> "caller", n |-> 0]

\* Variant: the event is put at the head of the list.
InsertFirst(l, e) == <<e>> \o l
\* _add_domain_event: self._domain_events.append(event)
AppendEvent(l, e) == Append(l, e)

\* get_domain_events_count(): len(self._domain_events)
GetDomainEventsCount(ls, a) == Len(ls[a])
\* has_domain_events(): len(self._domain_events) > 0
HasDomainEvents(ls, a) == Len(ls[a]) > 0

\* Variant: get_domain_events returns the aggregate's own list.
SameList(a) == a
\* get_domain_events: self._domain_events.copy(), a new list object.
CopyOf(a) == "copy"

\* What the holder of a list can do to it.
ListOps == {"append", "remove", "clear"}
Mutated(l, op) ==
    CASE op = "append" -> Append(l, ForeignEvent)
      [] op = "remove" -> IF l = <<>> THEN l ELSE Tail(l)
      [] op = "clear"  -> <<>>

\* Variant: publish_all is called whatever the list holds.
HasEventsAlways(events) == TRUE
\* if events:
HasEvents(events) == events # <<>>

\* publish_events_from_aggregates' loop: the first aggregate at or after
\* position i for which publish_events_from_aggregate calls the bus.
RECURSIVE NextAggregate(_, _, _)
NextAggregate(ls, as, i) ==
    IF i > Len(as) THEN i
    ELSE IF HasEvents(GetDomainEvents(ls, as[i])) THEN i
    ELSE NextAggregate(ls, as, i + 1)

\* The lists handed to publish_events_from_aggregates.
Batches == {<<>>} \cup [1..1 -> BatchAggregates] \cup [1..2 -> BatchAggregates]

RecordedCall(i, events) ==
    [op |-> "publish_all", pos |-> i, events |-> events, outcome |-> "running"]

\* A synchronous call on an aggregate returns at once.
EntityCall(k, a) ==
    /\ ppc # "in_bus"
    /\ pkind' = k
    /\ batch' = <<a>>
    /\ bi' = 0
    /\ bus_calls' = <<>>
    /\ ppc' = "returned"
    /\ UNCHANGED <<core, busv, aux>>

\* The publisher goes on from position i of the batch with the lists ls:
\* up to the next `await self.event_bus.publish_all(events)`, else to the
\* return.
PublisherRuns(k, as, i, calls, ls) ==
    LET j == NextAggregate(ls, as, i)
    IN /\ pkind' = k
       /\ batch' = as
       /\ bi' = j
       /\ lists' = ls
       /\ IF j <= Len(as)
          THEN /\ ppc' = "in_bus"
               /\ bus_calls' = Append(calls, RecordedCall(j, GetDomainEvents(ls, as[j])))
          ELSE /\ ppc' = "returned"
               /\ bus_calls' = calls
       /\ UNCHANGED <<held, core, busv, aux>>

\* aggregate.add_domain_event(event)
AddEvent(a) ==
    /\ Len(lists[a]) < MaxPending
    /\ lists' = [lists EXCEPT ![a] = AppendEvent(@, PendingEvent(a, Len(@) + 1))]
    /\ EntityCall("add", a)
    /\ UNCHANGED held

\* events = aggregate.get_domain_events(), kept by the caller
GetEvents(a) ==
    /\ held' = CopyOf(a)
    /\ lists' = [lists EXCEPT ![CopyOf(a)] = GetDomainEvents(lists, a)]
    /\ EntityCall("get", a)

\* The caller appends to, removes from or clears the list it got.
MutateHeld(op) ==
    /\ held # None
    /\ op = "append" => Len(lists[held]) <= MaxPending
    /\ lists' = [lists EXCEPT ![held] = Mutated(@, op)]
    /\ EntityCall("mutate", held)
    /\ UNCHANGED held

\* aggregate.clear_domain_events()
ClearEvents(a) ==
    /\ lists' = ClearDomainEvents(lists, a)
    /\ EntityCall("clear", a)
    /\ UNCHANGED held

\* await publisher.publish_events_from_aggregate(a)
PublishOne(a) ==
    /\ ppc # "in_bus"
    /\ PublisherRuns("from_aggregate", <<a>>, 1, <<>>, lists)

\* await publisher.publish_events_from_aggregates(as)
PublishBatch(as) ==
    /\ ppc # "in_bus"
    /\ PublisherRuns("from_aggregates", as, 1, <<>>, lists)

\* publish_all ends: it returns (o caught inside the bus, or no handler
\* failed) and the publisher clears the aggregate and goes on, or it lets
\* an error through that the publisher does not catch either.
BusReturns(o) ==
    /\ ppc = "in_bus"
    /\ LET calls == [bus_calls EXCEPT ![Len(bus_calls)].outcome = o]
       IN IF Catches(o)
          THEN PublisherRuns(pkind, batch, bi + 1, calls,
                             ClearDomainEvents(lists, batch[bi]))
          ELSE /\ ppc' = "raised"
               /\ bus_calls' = calls
               /\ UNCHANGED <<lists, held, batch, bi, pkind, core, busv, aux>>

NextPublisher ==
    \/ \E a \in BatchAggregates : AddEvent(a)
    \/ \E a \in BatchAggregates : GetEvents(a)
    \/ \E op \in ListOps : MutateHeld(op)
    \/ \E a \in BatchAggregates : ClearEvents(a)
    \/ \E a \in BatchAggregates : PublishOne(a)
    \/ \E as \in Batches : PublishBatch(as)
    \/ \E o \in Outcomes : BusReturns(o)

SpecPublisher == Init /\ [][NextPublisher]_vars

\* ========================================= bus instances and singletons
\* EventBus objects are numbered in the order of their construction; 0 is
\* no object (None).
Constructed == 1..made

\* Variant: _handlers is one dict shared by all instances (a class
\* attribute).
DictShared(b) == 1
\* EventBus.__init__: self._handlers = {} gives every instance a dict of
\* its own.
DictOf(b) == b

\* The registry bus b works on.
Reg(bs, b) == bs[DictOf(b)]

\* EventBus(): a new object, its dict empty if it is a new dict.
Construct(bs, b) ==
    [d \in DOMAIN bs \cup {DictOf(b)} |-> IF d \in DOMAIN bs THEN bs[d] ELSE EmptyRegistry]

\* Entries over all buses.
RECURSIVE BusSubs(_, _)
BusSubs(bs, D) ==
    IF D = {} THEN 0
    ELSE LET d == CHOOSE x \in D : TRUE
         IN TotalCount(bs[d]) + BusSubs(bs, D \ {d})

\* The event classes used on these buses.
BusEventTypes == {"T"}

\* The call made last, with the bus it constructed, returned, published on
\* or (the reset) replaced, and the handlers a publish invoked.
BusOp(o, b, t, inv) == [op |-> o, bus |-> b, type |-> t, invoked |-> inv]

\* bus = EventBus()
NewBus ==
    /\ made < MaxBuses
    /\ made' = made + 1
    /\ buses' = Construct(buses, made + 1)
    /\ bret' = BusOp("new", made + 1, None, <<>>)
    /\ UNCHANGED <<globals, core, pubv, aux>>

\* b.subscribe(t, h)
SubscribeOn(b, t, h) ==
    /\ b \in Constructed
    /\ BusSubs(buses, DOMAIN buses) < MaxBusSubs
    /\ buses' = [buses EXCEPT ![DictOf(b)] = SubscribeReg(@, t, h)]
    /\ bret' = BusOp("subscribe", 0, None, <<>>)
    /\ UNCHANGED <<globals, made, core, pubv, aux>>

\* b.unsubscribe(t, h)
UnsubscribeOn(b, t, h) ==
    /\ b \in Constructed
    /\ buses' = [buses EXCEPT ![DictOf(b)] = UnsubscribeReg(@, t, h)]
    /\ bret' = BusOp("unsubscribe", 0, None, <<>>)
    /\ UNCHANGED <<globals, made, core, pubv, aux>>

\* await b.publish(event) with an event of class t, or the same call made
\* by EventPublisher(b).publish_event(event); every handler returns.
PublishOn(b, t) ==
    /\ b \in Constructed
    /\ bret' = BusOp("publish", b, t, HandlersFor(Reg(buses, b), t))
    /\ UNCHANGED <<buses, globals, made, core, pubv, aux>>

\* Variant: get_event_bus constructs a bus on every call.
NeedsNewAlways(g) == TRUE
\* if _event_bus is None:
NeedsNew(g) == g = 0

\* get_event_bus() of module m
GetEventBus(m) ==
    /\ NeedsNew(globals[m]) => made < MaxBuses
    /\ LET b == IF NeedsNew(globals[m]) THEN made + 1 ELSE globals[m]
       IN /\ made' = IF NeedsNew(globals[m]) THEN made + 1 ELSE made
          /\ buses' = IF NeedsNew(globals[m]) THEN Construct(buses, b) ELSE buses
          /\ globals' = [globals EXCEPT ![m] = b]
          /\ bret' = BusOp("get", b, None, <<>>)
    /\ UNCHANGED <<core, pubv, aux>>

\* Variant: the reset drops the old bus without clearing it.
ClearOldSkipped(bs, g) == bs
\* if _event_bus is not None: _event_bus.clear_handlers()
ClearOld(bs, g) == IF g # 0 THEN [bs EXCEPT ![DictOf(g)] = ClearReg(@)] ELSE bs

\* reset_global_event_bus() / reset_event_bus() of module m
ResetEventBus(m) ==
    /\ made < MaxBuses
    /\ made' = made + 1
    /\ buses' = Construct(ClearOld(buses, globals[m]), made + 1)
    /\ globals' = [globals EXCEPT ![m] = made + 1]
    /\ bret' = BusOp("reset", globals[m], None, <<>>)
    /\ UNCHANGED <<core, pubv, aux>>

NextBuses ==
    \/ NewBus
    \/ \E b \in 1..MaxBuses, t \in BusEventTypes, h \in HandlerIds : SubscribeOn(b, t, h)
    \/ \E b \in 1..MaxBuses, t \in BusEventTypes, h \in HandlerIds : UnsubscribeOn(b, t, h)
    \/ \E b \in 1..MaxBuses, t \in BusEventTypes : PublishOn(b, t)
    \/ \E m \in Modules : GetEventBus(m)
    \/ \E m \in Modules : ResetEventBus(m)

SpecBuses == Init /\ [][NextBuses]_vars

\* =============================== the singletons as the application uses them
\* The event classes and handler classes of register_all_event_handlers,
\* in the order of its subscribe calls.
Registrations ==
    << <<"PetCreatedEvent", "PetCreatedEventHandler">>,
       <<"PetOwnershipChangedEvent", "PetOwnershipChangedEventHandler">>,
       <<"PetMorphologyUpdatedEvent", "PetMorphologyUpdatedEventHandler">>,
       <<"PetDeletedEvent", "PetDeletedEventHandler">>,
       <<"UserCreatedEvent", "UserCreatedEventHandler">>,
       <<"UserUpdatedEvent", "UserUpdatedEventHandler">>,
       <<"PetCreatedEvent", "AuditEventHandler">>,
       <<"PetOwnershipChangedEvent", "AuditEventHandler">>,
       <<"PetMorphologyUpdatedEvent", "AuditEventHandler">>,
       <<"PetDeletedEvent", "AuditEventHandler">>,
       <<"UserCreatedEvent", "AuditEventHandler">>,
       <<"UserUpdatedEvent", "AuditEventHandler">>,
       <<"PetCreatedEvent", "PetAuditEventHandler">>,
       <<"PetOwnershipChangedEvent", "PetAuditEventHandler">>,
       <<"PetMorphologyUpdatedEvent", "PetAuditEventHandler">>,
       <<"PetDeletedEvent", "PetAuditEventHandler">>,
       <<"UserCreatedEvent", "UserAuditEventHandler">>,
       <<"UserUpdatedEvent", "UserAuditEventHandler">>,
       <<"PetCreatedEvent", "NotificationEventHandler">>,
       <<"PetOwnershipChangedEvent", "NotificationEventHandler">>,
       <<"PetMorphologyUpdatedEvent", "NotificationEventHandler">>,
       <<"PetDeletedEvent", "NotificationEventHandler">>,
       <<"UserCreatedEvent", "NotificationEventHandler">>,
       <<"UserUpdatedEvent", "NotificationEventHandler">>,
       <<"PetCreatedEvent", "EmailNotificationHandler">>,
       <<"PetOwnershipChangedEvent", "EmailNotificationHandler">>,
       <<"UserCreatedEvent", "EmailNotificationHandler">>,
       <<"UserUpdatedEvent", "EmailNotificationHandler">>,
       <<"PetCreatedEvent", "PushNotificationHandler">>,
       <<"PetOwnershipChangedEvent", "PushNotificationHandler">>,
       <<"UserCreatedEvent", "PushNotificationHandler">>,
       <<"UserUpdatedEvent", "PushNotificationHandler">> >>

RegisteredTypes == {Registrations[i][1] : i \in 1..Len(Registrations)}

\* How many handlers one run subscribes for the event class t.
PerRun(t) == Cardinality({i \in 1..Len(Registrations) : Registrations[i][1] = t})

\* The event class published in this specification: it has bootstrap
\* handlers and a decorated function.
PublishedTypes == {"PetCreatedEvent"}

\* The functions event_handlers.py decorates, by event class.
Decorated ==
    [t \in {"PetCreatedEvent", "UserCreatedEvent"} |->
        IF t = "PetCreatedEvent" THEN "log_pet_creation" ELSE "setup_user_profile"]

\* SomeHandler(): a new object on every call; n tells the objects of one
\* class on one bus apart.
NewHandler(c, reg) == [cls |-> c, n |-> TotalCount(reg) + 1]
\* FunctionHandler(): a new object of a new class, closed over handler_func.
FunctionHandler(f, reg) == [cls |-> "FunctionHandler", n |-> TotalCount(reg) + 1, func |-> f]

\* The subscribe calls of register_all_event_handlers from the i-th on.
RECURSIVE SubscribeAll(_, _)
SubscribeAll(reg, i) ==
    IF i > Len(Registrations) THEN reg
    ELSE SubscribeAll(SubscribeReg(reg, Registrations[i][1],
                                   NewHandler(Registrations[i][2], reg)), i + 1)

\* How many handlers of class c the list hs holds.
OfClass(c, hs) == Cardinality({i \in 1..Len(hs) : hs[i].cls = c})

\* How many runs of the bootstrap registration the registry shows.
Runs(reg) == OfClass("PetCreatedEventHandler", GetHandlers(reg, "PetCreatedEvent"))
\* Whether the registry holds the wrapper of the function decorated for t.
Wrapped(reg, t) == OfClass("FunctionHandler", GetHandlers(reg, t)) > 0

\* Variant: a bus that already holds the bootstrap handlers is left alone.
PopulateOnce(reg) == IF Runs(reg) > 0 THEN reg ELSE SubscribeAll(reg, 1)
\* The body of register_all_event_handlers on the registry of its bus.
Populate(reg) == SubscribeAll(reg, 1)

\* get_event_bus() of a module whose singleton is g, when mk buses exist:
\* the bus it returns.
GlobalBus(g, mk) == IF NeedsNew(g) THEN mk + 1 ELSE g
\* The buses and their count after that call.
AfterGet(bs, g, mk) == IF NeedsNew(g) THEN Construct(bs, mk + 1) ELSE bs
MadeAfterGet(g, mk) == IF NeedsNew(g) THEN mk + 1 ELSE mk

\* register_all_event_handlers(event_bus): arg is the bus given, 0 for None.
\* Without a bus it takes get_event_bus() of infrastructure.dependencies.events.
RegisterAll(arg) ==
    /\ arg \in Constructed \cup {0}
    /\ LET g == globals["infra"]
           b == IF arg = 0 THEN GlobalBus(g, made) ELSE arg
           bs == IF arg = 0 THEN AfterGet(buses, g, made) ELSE buses
       IN /\ (arg = 0 /\ NeedsNew(g)) => made < MaxBuses
          /\ Runs(Reg(bs, b)) < MaxRuns
          /\ made' = IF arg = 0 THEN MadeAfterGet(g, made) ELSE made
          /\ globals' = IF arg = 0 THEN [globals EXCEPT !["infra"] = b] ELSE globals
          /\ buses' = [bs EXCEPT ![DictOf(b)] = Populate(@)]
          /\ bret' = BusOp("register_all", b, None, <<>>)
    /\ UNCHANGED <<core, pubv, aux>>

\* subscribe_to_event(t)(f): the wrapper is subscribed on get_event_bus() of
\* domain.common.events, and f is returned.  The decorator runs when
\* event_handlers.py is imported, once per function for a bus.
SubscribeToEvent(t) ==
    /\ t \in DOMAIN Decorated
    /\ LET g == globals["domain"]
           b == GlobalBus(g, made)
           bs == AfterGet(buses, g, made)
       IN /\ NeedsNew(g) => made < MaxBuses
          /\ ~Wrapped(Reg(bs, b), t)
          /\ made' = MadeAfterGet(g, made)
          /\ globals' = [globals EXCEPT !["domain"] = b]
          /\ buses' = [bs EXCEPT ![DictOf(b)] =
                          SubscribeReg(@, t, FunctionHandler(Decorated[t], @))]
          /\ bret' = [op |-> "subscribe_to_event", bus |-> b, type |-> t,
                      invoked |-> <<>>, returned |-> Decorated[t]]
    /\ UNCHANGED <<core, pubv, aux>>

\* Where the wrapper of a decorated function stands in hs; 0 if nowhere.
WrapperAt(hs) ==
    IF \E i \in 1..Len(hs) : hs[i].cls = "FunctionHandler"
    THEN CHOOSE i \in 1..Len(hs) : hs[i].cls = "FunctionHandler"
    ELSE 0

\* Variant: the wrapper swallows what the function raises.
HandleSwallows(h, o) == "ok"
\* How handle() of h ends when the decorated function ends with o.
\* FunctionHandler.handle is `await handler_func(event)` with nothing around
\* it, so it ends as the function does; the handler classes of the bootstrap
\* registration only log and return.
HandleOutcome(h, o) == IF h.cls = "FunctionHandler" THEN o ELSE "ok"

\* await bus.publish(event) from start to end, the decorated function
\* ending with o: the handlers invoked in order, and whether the call
\* raised.  The loop leaves at the first handler whose failure the
\* `except Exception` does not catch.
Dispatch(hs, o) ==
    LET i == WrapperAt(hs)
        stops == i # 0 /\ HandleOutcome(hs[i], o) # "ok" /\ ~Catches(HandleOutcome(hs[i], o))
    IN [invoked |-> IF stops THEN SubSeq(hs, 1, i) ELSE hs, raised |-> stops]

\* The record of a publish made through a publisher.
Published(via, b, t, hs, o) ==
    [op |-> "dispatch", via |-> via, bus |-> b, type |-> t, outcome |-> o,
     invoked |-> Dispatch(hs, o).invoked, raised |-> Dispatch(hs, o).raised]

\* await get_event_publisher().publish_event(event) of
\* domain.common.event_publisher, or the same on an EventPublisher() that
\* has resolved no bus yet: the event_bus property takes get_event_bus() of
\* domain.common.events on first use and keeps it.
DefaultPublish(t, o) ==
    /\ LET c == globals["publisher"]
           g == globals["domain"]
           b == IF c = 0 THEN GlobalBus(g, made) ELSE c
           bs == IF c = 0 THEN AfterGet(buses, g, made) ELSE buses
           hs == HandlersFor(Reg(bs, b), t)
       IN /\ (c = 0 /\ NeedsNew(g)) => made < MaxBuses
          /\ WrapperAt(hs) = 0 => o = "ok"
          /\ made' = IF c = 0 THEN MadeAfterGet(g, made) ELSE made
          /\ buses' = bs
          /\ globals' = IF c = 0
                        THEN [globals EXCEPT !["domain"] = b, !["publisher"] = b]
                        ELSE globals
          /\ bret' = Published("default", b, t, hs, o)
    /\ UNCHANGED <<core, pubv, aux>>

\* await get_event_publisher().publish_event(event) of
\* infrastructure.dependencies.events: EventPublisher(get_event_bus()).
InjectedPublish(t, o) ==
    /\ LET g == globals["infra"]
           b == GlobalBus(g, made)
           bs == AfterGet(buses, g, made)
           hs == HandlersFor(Reg(bs, b), t)
       IN /\ NeedsNew(g) => made < MaxBuses
          /\ WrapperAt(hs) = 0 => o = "ok"
          /\ made' = MadeAfterGet(g, made)
          /\ buses' = bs
          /\ globals' = [globals EXCEPT !["infra"] = b]
          /\ bret' = Published("injected", b, t, hs, o)
    /\ UNCHANGED <<core, pubv, aux>>

\* get_event_bus().clear_handlers() with get_event_bus of module m
ClearGlobalBus(m) ==
    /\ globals[m] # 0
    /\ buses' = [buses EXCEPT ![DictOf(globals[m])] = ClearReg(@)]
    /\ bret' = BusOp("clear_handlers", globals[m], None, <<>>)
    /\ UNCHANGED <<globals, made, core, pubv, aux>>

\* reset_global_event_publisher(): a new EventPublisher() with no bus.
ResetGlobalEventPublisher ==
    /\ globals["publisher"] # 0
    /\ globals' = [globals EXCEPT !["publisher"] = 0]
    /\ bret' = BusOp("reset_publisher", globals["publisher"], None, <<>>)
    /\ UNCHANGED <<buses, made, core, pubv, aux>>

NextBootstrap ==
    \/ \E arg \in 0..MaxBuses : RegisterAll(arg)
    \/ \E t \in DOMAIN Decorated : SubscribeToEvent(t)
    \/ \E t \in PublishedTypes, o \in Outcomes : DefaultPublish(t, o)
    \/ \E t \in PublishedTypes, o \in Outcomes : InjectedPublish(t, o)
    \/ \E m \in Modules : GetEventBus(m)
    \/ \E m \in Modules : ClearGlobalBus(m)
    \/ ResetGlobalEventPublisher

SpecBootstrap == Init /\ [][NextBootstrap]_vars

\* ======================================================= the Pet aggregate
\* PetOwnershipChangedEvent(pet_id=..., old_owner_id=..., new_owner_id=...)
PetOwnershipChangedEvent(p, old, new) ==
    [type |-> "PetOwnershipChangedEvent", pet_id |-> p,
     old_owner_id |-> old, new_owner_id |-> new]

\* PetMorphologyUpdatedEvent(pet_id=..., morphology_id=...)
PetMorphologyUpdatedEvent(p, m) ==
    [type |-> "PetMorphologyUpdatedEvent", pet_id |-> p, morphology_id |-> m]

\* Variant: pet_id is declared `str | None`.
ValidAlways(e) == TRUE
\* pydantic validates the fields of an event when it is constructed:
\* pet_id is `str` in both event classes, and None is no str.
ValidEvent(e) == e.pet_id # None

\* `not new_owner_id`: true for None and for the empty string.
Falsy(x) == x = None \/ x = ""

PetCall(o, x, r) == [op |-> o, arg |-> x, result |-> r]

\* Pet(id=p, owner_id=o, ...): BaseEntity.__init__ starts the event list
\* empty.
NewPet(p, o) ==
    /\ pid' = p
    /\ owner' = o
    /\ morph' = None
    /\ pevents' = <<>>
    /\ pret' = PetCall("new", o, "ok")
    /\ UNCHANGED <<core, pubv, busv, livev, createv>>

\* pet.change_owner(new)
ChangeOwner(new) ==
    /\ Len(pevents) < MaxPending
    /\ IF Falsy(new)
       THEN \* raise ValueError("Owner ID cannot be empty")
            /\ pret' = PetCall("change_owner", new, "ValueError")
            /\ UNCHANGED <<owner, pevents>>
       ELSE \* owner_id is assigned and the timestamp updated before the
            \* event is constructed
            /\ owner' = new
            /\ IF ValidEvent(PetOwnershipChangedEvent(pid, owner, new))
               THEN /\ pevents' = AppendEvent(pevents, PetOwnershipChangedEvent(pid, owner, new))
                    /\ pret' = PetCall("change_owner", new, "ok")
               ELSE /\ pevents' = pevents
                    /\ pret' = PetCall("change_owner", new, "ValidationError")
    /\ UNCHANGED <<pid, morph, core, pubv, busv, livev, createv>>

\* pet.update_morphology(m)
UpdateMorphology(m) ==
    /\ Len(pevents) < MaxPending
    /\ morph' = m
    /\ IF ValidEvent(PetMorphologyUpdatedEvent(pid, m))
       THEN /\ pevents' = AppendEvent(pevents, PetMorphologyUpdatedEvent(pid, m))
            /\ pret' = PetCall("update_morphology", m, "ok")
       ELSE /\ pevents' = pevents
            /\ pret' = PetCall("update_morphology", m, "ValidationError")
    /\ UNCHANGED <<pid, owner, core, pubv, busv, livev, createv>>

\* pet.clear_domain_events()
ClearPetEvents ==
    /\ pevents' = <<>>
    /\ pret' = PetCall("clear", None, "ok")
    /\ UNCHANGED <<pid, owner, morph, core, pubv, busv, livev, createv>>

NextPet ==
    \/ \E p \in PetIds, o \in OwnerIds : NewPet(p, o)
    \/ \E new \in OwnerArgs : ChangeOwner(new)
    \/ \E m \in MorphArgs : UpdateMorphology(m)
    \/ ClearPetEvents

SpecPet == Init /\ [][NextPet]_vars

\* ============================ a dispatch with calls made during a handler
\* Between two awaits a task runs alone, and publish awaits only
\* handler.handle(event).  While a handler is suspended other tasks run,
\* and the handler itself runs: either may call the bus or the aggregate.
\* One step of the publishing task goes from one such await to the next.

\* The event classes used here.
LiveTypes == {"T"}

\* handlers = self._handlers.get(event_type, []): the dict's own list when
\* the key is there, else a new empty list the dict does not hold.
Looked(reg, t) == IF t \in DOMAIN reg THEN [live |-> TRUE, items |-> <<>>] ELSE NoList

\* The items of the list the loop runs over, as they are now.
Items(reg, t, c) == IF c.live THEN reg[t] ELSE c.items

\* self._handlers.clear() empties the dict; a list being iterated lives on
\* with its items, outside the dict.
Detached(reg, t, c) == IF c.live THEN [live |-> FALSE, items |-> reg[t]] ELSE c

\* The publishing task is inside a call.
InFlight == lpc = "in_handler"

\* Calls on the bus and the aggregate are made while no publish runs, or
\* while its handler is suspended.
Callable ==
    /\ lpc \in {"idle", "in_handler"}
    /\ InFlight => lops < MaxOps
    /\ lops' = IF InFlight THEN lops + 1 ELSE lops

\* The call returns: publish_events_from_aggregate clears the aggregate
\* after publish_all.
LiveReturn(k, lg) ==
    /\ lpc' = "returned"
    /\ llog' = lg
    /\ lei' = Len(lq) + 1
    /\ lhi' = 0
    /\ lcur' = NoList
    /\ lpend' = IF k = "from_aggregate" THEN <<>> ELSE lpend
    /\ UNCHANGED <<lstart>>

\* publish(q[j]) is called: the list is looked up and the loop started.
\* An event whose list is empty or missing is done at once, and publish_all
\* goes to the next.
LiveStart(c, q, j, lg) ==
    LET k == NextEvent(lreg, q, j)
    IN IF k <= Len(q)
       THEN /\ lpc' = "in_handler"
            /\ lei' = k
            /\ lhi' = 1
            /\ lcur' = Looked(lreg, q[k].type)
            /\ lstart' = GetHandlers(lreg, q[k].type)
            /\ llog' = Append(lg, Invocation(GetHandlers(lreg, q[k].type)[1], q[k]))
            /\ lpend' = lpend
       ELSE LiveReturn(c, lg)

\* await bus.publish(event), event of class t
LivePublish(t) ==
    /\ lpc = "idle"
    /\ lkind' = "publish"
    /\ lq' = <<Event(0, t)>>
    /\ llate' = <<>>
    /\ lclr' = FALSE
    /\ lops' = 0
    /\ LiveStart("publish", <<Event(0, t)>>, 1, <<>>)
    /\ UNCHANGED <<lreg, core, pubv, busv, petv, createv>>

\* await publisher.publish_events_from_aggregate(aggregate)
LivePublishFromAggregate ==
    /\ lpc = "idle"
    /\ lkind' = "from_aggregate"
    /\ llate' = <<>>
    /\ lclr' = FALSE
    /\ lops' = 0
    /\ lq' = lpend
    /\ IF HasEvents(lpend)
       THEN LiveStart("from_aggregate", lpend, 1, <<>>)
       ELSE /\ lpc' = "returned"
            /\ llog' = <<>>
            /\ lei' = 1
            /\ lhi' = 0
            /\ lcur' = NoList
            /\ UNCHANGED <<lpend, lstart>>
    /\ UNCHANGED <<lreg, core, pubv, busv, petv, createv>>

\* The suspended handler ends with outcome o (the log of this
\* specification does not keep it).  The list iterator takes the
\* next item of its list as the list is now, if it has one more; else
\* publish returns and publish_all goes on.
LiveHandlerCompletes(o) ==
    /\ lpc = "in_handler"
    /\ LET lg == llog
           e == lq[lei]
           items == Items(lreg, e.type, lcur)
       IN IF ~Catches(o)
          THEN /\ lpc' = "raised"
               /\ llog' = lg
               /\ UNCHANGED <<lcur, lpend, lei, lhi, lstart>>
          ELSE IF lhi < Len(items)
          THEN /\ lpc' = "in_handler"
               /\ lhi' = lhi + 1
               /\ llog' = Append(lg, Invocation(items[lhi + 1], e))
               /\ UNCHANGED <<lcur, lpend, lei, lstart>>
          ELSE LiveStart(lkind, lq, lei + 1, lg)
    /\ UNCHANGED <<lreg, lq, lkind, llate, lclr, lops, core, pubv, busv, petv, createv>>

\* bus.subscribe(t, h)
LiveSubscribe(t, h) ==
    /\ Callable
    /\ TotalCount(lreg) < MaxSubs
    /\ lreg' = SubscribeReg(lreg, t, h)
    /\ UNCHANGED <<lcur, lpend, lq, lei, lhi, lpc, lkind, llog, lstart, llate, lclr>>
    /\ UNCHANGED <<core, pubv, busv, petv, createv>>

\* bus.unsubscribe(t, h)
LiveUnsubscribe(t, h) ==
    /\ Callable
    /\ lreg' = UnsubscribeReg(lreg, t, h)
    /\ UNCHANGED <<lcur, lpend, lq, lei, lhi, lpc, lkind, llog, lstart, llate, lclr>>
    /\ UNCHANGED <<core, pubv, busv, petv, createv>>

\* bus.clear_handlers()
LiveClearHandlers ==
    /\ Callable
    /\ lreg' = ClearReg(lreg)
    /\ lcur' = IF InFlight THEN Detached(lreg, lq[lei].type, lcur) ELSE lcur
    /\ lclr' = InFlight
    /\ UNCHANGED <<lpend, lq, lei, lhi, lpc, lkind, llog, lstart, llate>>
    /\ UNCHANGED <<core, pubv, busv, petv, createv>>

\* aggregate.add_domain_event(event), by a business method
LiveAddDomainEvent(t) ==
    /\ Callable
    /\ Len(lpend) < MaxPending
    /\ LET e == Event(Len(lpend) + 1, t)
       IN /\ lpend' = AppendEvent(lpend, e)
          /\ llate' = IF InFlight /\ lkind = "from_aggregate" THEN Append(llate, e) ELSE llate
    /\ UNCHANGED <<lreg, lcur, lq, lei, lhi, lpc, lkind, llog, lstart, lclr>>
    /\ UNCHANGED <<core, pubv, busv, petv, createv>>

\* The publishing task goes on after its call.
LiveResume ==
    /\ lpc \in {"returned", "raised"}
    /\ lpc' = "idle"
    /\ lkind' = "none"
    /\ lq' = <<>>
    /\ lei' = 0
    /\ lhi' = 0
    /\ lcur' = NoList
    /\ llog' = <<>>
    /\ lstart' = <<>>
    /\ llate' = <<>>
    /\ lclr' = FALSE
    /\ lops' = 0
    /\ UNCHANGED <<lreg, lpend, core, pubv, busv, petv, createv>>

NextLive ==
    \/ \E t \in LiveTypes : LivePublish(t)
    \/ LivePublishFromAggregate
    \/ \E o \in Outcomes : LiveHandlerCompletes(o)
    \/ \E t \in LiveTypes, h \in HandlerIds : LiveSubscribe(t, h)
    \/ \E t \in LiveTypes, h \in HandlerIds : LiveUnsubscribe(t, h)
    \/ LiveClearHandlers
    \/ \E t \in LiveTypes : LiveAddDomainEvent(t)
    \/ LiveResume

SpecLive == Init /\ [][NextLive]_vars

\* ================================================ the pet-creation request
\* The router awaits CreatePetHandler.handle(command); the handler hands the
\* request to PetDomainService.create_pet_with_validation or runs the same
\* steps itself.  Both validate, construct the Pet, await
\* pet_repository.create(pet), add the PetCreatedEvent to the pet that
\* create returned, and return that pet.

\* PetCreatedEvent(pet_id=..., owner_id=..., breed_id=...)
PetCreatedEvent(p, o) == [type |-> "PetCreatedEvent", pet_id |-> p, owner_id |-> o]

\* mapper.to_domain(model): a new Pet built from the row.  BaseEntity.__init__
\* starts its _domain_events empty, whatever the entity handed to create
\* was holding.
ToDomain(i, row) == [id |-> i, owner_id |-> row, events |-> <<>>]

\* EventPublisher.publish_events_from_aggregate(entity): the events it hands
\* to event_bus.publish_all, and the entity afterwards.
HandedToBus(ent) == {ent.events[k] : k \in 1..Len(ent.events)}
AfterPublish(ent) == [ent EXCEPT !.events = <<>>]

Request(path, r) == [path |-> path, result |-> r]

\* The request up to `await self.pet_repository.create(pet)`: the lookups
\* (name, owner, breed, morphology) and Pet(...), which has no id yet.
BeginCreate(path, o, found) ==
    /\ cpc = "idle"
    /\ IF found
       THEN /\ cpc' = "built"
            /\ cpath' = path
            /\ cpet' = [id |-> None, owner_id |-> o, events |-> <<>>]
            /\ cret' = NoRequest
       ELSE \* a lookup fails and the request raises
            /\ cpc' = "idle"
            /\ cpath' = "none"
            /\ cpet' = NoPet
            /\ cret' = Request(path, "NotFoundError")
    /\ UNCHANGED <<cdb, cdisp, core, pubv, busv, petv, livev>>

\* PostgreSQLPetRepositoryImpl.create(pet): add, flush, refresh, to_domain,
\* _publish_events_from_entity(created_pet), return created_pet; any
\* Exception becomes PetRepositoryError.
RepositoryCreate(flushOk) ==
    /\ cpc = "built"
    /\ flushOk => Len(cdb) < MaxCreates
    /\ IF flushOk
       THEN LET created == ToDomain(RowIds[Len(cdb) + 1], cpet.owner_id)
            IN  /\ cdb' = Append(cdb, cpet.owner_id)
                /\ cdisp' = cdisp \cup HandedToBus(created)
                /\ cpet' = AfterPublish(created)
                /\ cpc' = "created"
                /\ UNCHANGED <<cpath, cret>>
       ELSE /\ cpc' = "idle"
            /\ cpath' = "none"
            /\ cpet' = NoPet
            /\ cret' = Request(cpath, "PetRepositoryError")
            /\ UNCHANGED <<cdb, cdisp>>
    /\ UNCHANGED <<core, pubv, busv, petv, livev>>

\* created_pet._add_domain_event(PetCreatedEvent(pet_id=created_pet.id, ...))
\* and `return created_pet`
FinishCreate ==
    /\ cpc = "created"
    /\ cpet' = [cpet EXCEPT !.events =
                   AppendEvent(@, PetCreatedEvent(cpet.id, cpet.owner_id))]
    /\ cpc' = "returned"
    /\ cret' = Request(cpath, "ok")
    /\ UNCHANGED <<cpath, cdb, cdisp, core, pubv, busv, petv, livev>>

\* The router builds the response from pet.model_dump() and returns; no
\* reference to the Pet object is left.
Respond ==
    /\ cpc = "returned"
    /\ cpc' = "idle"
    /\ cpath' = "none"
    /\ cpet' = NoPet
    /\ UNCHANGED <<cret, cdb, cdisp, core, pubv, busv, petv, livev>>

\* The steps of a request the event loop resumes: an awaited coroutine that
\* can run does run.  Nothing makes a new request arrive.
Resumed ==
    \/ \E flushOk \in BOOLEAN : RepositoryCreate(flushOk)
    \/ FinishCreate
    \/ Respond

NextCreate ==
    \/ \E path \in CreatePaths, o \in OwnerIds, found \in BOOLEAN :
           BeginCreate(path, o, found)
    \/ \E flushOk \in BOOLEAN : RepositoryCreate(flushOk)
    \/ FinishCreate
    \/ Respond

SpecCreate == Init /\ [][NextCreate]_vars /\ WF_vars(Resumed)

\* ================================================================ claims
\* The handlers registered for exactly the class t, in registration order.
Registered(reg, t) == IF t \in DOMAIN reg THEN reg[t] ELSE <<>>

\* The (handler, event) pairs of a log, in call order.
Calls(lg) == [i \in 1..Len(lg) |-> <<lg[i].handler, lg[i].event>>]

\* Event-major, registration-minor: every event of q, in order, offered to
\* every handler registered for its class, in registration order.
RECURSIVE ExpectedCalls(_, _)
ExpectedCalls(reg, q) ==
    IF q = <<>> THEN <<>>
    ELSE LET e == Head(q)
             hs == Registered(reg, e.type)
         IN [i \in 1..Len(hs) |-> <<hs[i], e>>] \o ExpectedCalls(reg, Tail(q))

IsPrefix(s, t) == Len(s) <= Len(t) /\ SubSeq(t, 1, Len(s)) = s

Count(h, hs) == Cardinality({i \in 1..Len(hs) : hs[i] = h})

Finished == pc \in {"returned", "raised"}
BusCall == kind \in {"publish", "publish_all"}
SomeRaise(lg, os) == \E i \in 1..Len(lg) : lg[i].outcome \in os

\* C1 (as stated): whenever a handler raises during publish / publish_all,
\* whatever it raises, all remaining handlers and events are still
\* dispatched and the call returns normally.
C1_AnyRaiseIsIsolated ==
    (BusCall /\ Finished /\ SomeRaise(log, {"exception", "base_exception"}))
        => (pc = "returned" /\ Calls(log) = ExpectedCalls(handlers, queue))

\* C1 (amended): whenever a handler raises an Exception during publish /
\* publish_all, the remaining handlers of that event and the later events
\* are still dispatched and the call returns normally; the call is left
\* early, with an error, only by a BaseException that is no Exception.
C1_FaultIsolation ==
    (BusCall /\ Finished)
        => /\ ~SomeRaise(log, {"base_exception"})
                => (pc = "returned" /\ Calls(log) = ExpectedCalls(handlers, queue))
           /\ pc = "raised" => log[Len(log)].outcome = "base_exception"

\* C1 witness: handler k raised an Exception, handler k+1 ran for the same
\* event, a later event was dispatched, and publish_all returned.
C1_Witness ==
    /\ pc = "returned"
    /\ kind = "publish_all"
    /\ \E i \in 1..Len(log) :
         /\ log[i].outcome = "exception"
         /\ i + 1 <= Len(log)
         /\ log[i + 1].event = log[i].event
         /\ log[Len(log)].event # log[i].event

\* C2: the handler invocations of one publish_all call are totally ordered,
\* first by the event's position in the list, then by registration position:
\* at every moment the log is a prefix of that order, and on return all of it.
C2_Ordering ==
    (pc # "idle")
        => /\ IsPrefix(Calls(log), ExpectedCalls(handlers, queue))
           /\ pc = "returned" => Calls(log) = ExpectedCalls(handlers, queue)

\* C2 witness: H1, H2 subscribed in that order to T, publish_all([E1, E2])
\* returned after H1(E1), H2(E1), H1(E2), H2(E2).
C2_Witness ==
    /\ pc = "returned"
    /\ kind = "publish_all"
    /\ Len(queue) = 2
    /\ queue[1].type = "T" /\ queue[2].type = "T"
    /\ Registered(handlers, "T") = <<"H1", "H2">>
    /\ Calls(log) = << <<"H1", queue[1]>>, <<"H2", queue[1]>>,
                       <<"H1", queue[2]>>, <<"H2", queue[2]>> >>

\* C3: after a repository write that succeeded, the events the business
\* operation appended to the written aggregate have been dispatched and the
\* aggregate's pending list is empty.
C3_DrainOnWrite ==
    (pc = "returned" /\ kind = "repo_write" /\ repo.status = "ok")
        => /\ pending[repo.entity] = <<>>
           /\ Calls(log) = ExpectedCalls(handlers, queue)

\* C4: no handler is ever invoked for a write that did not happen: when the
\* transaction of a write is rolled back, no handler has been invoked for it.
C4_PublishOnlyAfterCommit ==
    (kind = "repo_write" /\ tx = "rolledback") => ~repo.notified

C6_DeliveryToAll ==
    (pc # "idle" /\ kind = "publish")
        => \A h \in HandlerIds :
             LET n == Cardinality({i \in 1..Len(log) : log[i].handler = h})
                 m == Count(h, Registered(handlers, queue[1].type))
             IN /\ n <= m
                /\ pc = "returned" => n = m
                /\ \A i \in 1..Len(log) : log[i].event = queue[1]

\* C6 witness: two distinct handlers subscribed to T, one T event published,
\* each invoked once.
C6_Witness ==
    /\ pc = "returned"
    /\ kind = "publish"
    /\ queue[1].type = "T"
    /\ Registered(handlers, "T") = <<"H2", "H1">>
    /\ Len(log) = 2

\* C7 (as stated): publishing from an aggregate with k pending events makes
\* exactly k handle calls in total and leaves the aggregate empty.
C7_ExactlyKCalls ==
    (pc = "returned" /\ kind = "from_aggregate" /\ queue # <<>>)
        => (Len(log) = Len(queue) /\ pending[target] = <<>>)

\* C7 (amended): when publish_events_from_aggregate returns, it has made one
\* handle call for every pair of an event that was pending and a handler
\* registered for that event's class (so k calls only if every event's class
\* has exactly one registration), in the aggregate's insertion order and then
\* in registration order, and the aggregate's pending list is empty.
C7_DrainAndClear ==
    [][ (kind' = "from_aggregate" /\ pc' = "returned")
          => /\ Calls(log') = ExpectedCalls(handlers, pending[target'])
             /\ pending'[target'] = <<>>
      ]_vars

\* C7 witness: two pending events, two handlers for their class: four calls.
C7_Witness ==
    /\ pc = "returned"
    /\ kind = "from_aggregate"
    /\ Len(queue) = 2
    /\ Len(log) = 4
    /\ pending[target] = <<>>

\* C8 (as stated): publish_events_from_aggregate never ends with an error,
\* and a repository write is never failed by event dispatch.
C8_NeverRaises ==
    /\ kind = "from_aggregate" => pc # "raised"
    /\ (kind = "repo_write" /\ pc = "raised") => log = <<>>

\* C8 (amended): publish_events_from_aggregate ends with an error, and a
\* flushed repository write is failed by event dispatch, only when a handler
\* raised a BaseException that is no Exception; whatever Exception handlers
\* raise, the call completes and the repository operation succeeds.
C8_NeverRaisesException ==
    /\ (kind \in {"from_aggregate", "repo_write"} /\ pc = "raised" /\ log # <<>>)
          => log[Len(log)].outcome = "base_exception"
    /\ (kind = "repo_write" /\ repo.status = "failed" /\ log # <<>>)
          => log[Len(log)].outcome = "base_exception"
    /\ (kind \in {"from_aggregate", "repo_write"} /\ pc = "raised")
          => ~SomeRaise(log, {"running"})

\* C8 witness: a handler raised an Exception during a repository write's
\* dispatch and the repository operation still succeeded.
C8_Witness ==
    /\ pc = "returned"
    /\ kind = "repo_write"
    /\ repo.status = "ok"
    /\ SomeRaise(log, {"exception"})

\* C9: a handler is invoked only with events whose class is exactly a class
\* it is registered for.
C9_TypeExactness ==
    \A i \in 1..Len(log) :
        Count(log[i].handler, Registered(handlers, log[i].event.type)) > 0

\* C9 witness: an event of the subclass U was published while a handler was
\* registered for T only, and nothing was invoked.
C9_Witness ==
    /\ pc = "returned"
    /\ kind = "publish"
    /\ queue[1].type = "U"
    /\ Registered(handlers, "T") # <<>>
    /\ Registered(handlers, "U") = <<>>
    /\ log = <<>>

\* C10: unsubscribing H from T where H is subscribed to T once leaves no
\* entry of H for T, and has_handlers(T) false when H was the only entry;
\* and handlers are only ever invoked while registered, so H gets no
\* delivery on the publishes that follow.
C10_UnsubscribeRemovesDelivery ==
    [][ /\ kind' = "unsubscribe" =>
             \A t \in EventTypes, h \in HandlerIds :
                (Unsubscribe(t, h) /\ Count(h, Registered(handlers, t)) = 1)
                   => /\ Count(h, Registered(handlers', t)) = 0
                      /\ Len(Registered(handlers, t)) = 1 => ~HasHandlers(handlers', t)
        /\ \A i \in 1..Len(log') :
             \E k \in 1..Len(Registered(handlers', log'[i].event.type)) :
                 Registered(handlers', log'[i].event.type)[k] = log'[i].handler
      ]_vars

\* C10 witness: T's list exists and is empty (a subscribe followed by an
\* unsubscribe), has_handlers(T) is false, and a published T event invoked
\* nobody.
C10_Witness ==
    /\ pc = "returned"
    /\ kind = "publish"
    /\ queue[1].type = "T"
    /\ "T" \in DOMAIN handlers
    /\ handlers["T"] = <<>>
    /\ ~HasHandlers(handlers, "T")
    /\ log = <<>>

\* C11: unsubscribe(T, H) removes exactly one entry, the earliest occurrence
\* of H in T's list, and leaves every other entry of every type, and their
\* order, as it was; when H is not registered for T (or T has no list) the
\* registry is unchanged; in both cases the call returns without an error.
C11_UnsubscribeEarliestOnly ==
    [][ kind' = "unsubscribe" =>
          \A t \in EventTypes, h \in HandlerIds :
             Unsubscribe(t, h) =>
                /\ pc' = "returned"
                /\ IF Count(h, Registered(handlers, t)) = 0
                   THEN handlers' = handlers
                   ELSE \E i \in 1..Len(handlers[t]) :
                          /\ handlers[t][i] = h
                          /\ \A j \in 1..(i-1) : handlers[t][j] # h
                          /\ DOMAIN handlers' = DOMAIN handlers
                          /\ \A x \in DOMAIN handlers \ {t} : handlers'[x] = handlers[x]
                          /\ handlers'[t] = [k \in 1..(Len(handlers[t]) - 1) |->
                                               IF k < i THEN handlers[t][k]
                                                        ELSE handlers[t][k+1]]
      ]_vars

\* C11 witness: H1 was registered for T before and after H2; the unsubscribe
\* of H1 took the earlier entry and left H2, H1.
C11_Witness ==
    /\ pc = "returned"
    /\ kind = "unsubscribe"
    /\ before = <<[T |-> <<"H1", "H2", "H1">>]>>
    /\ handlers = [T |-> <<"H2", "H1">>]

\* How often handler h was invoked in the log lg.
Invoked(h, lg) == Cardinality({i \in 1..Len(lg) : lg[i].handler = h})

\* C12: no deduplication.  Each subscribe of H to T adds one entry of H to
\* T's list, whatever the list holds already; one published T event invokes
\* H once per entry; an unsubscribe of a registered H takes one entry away,
\* so that H subscribed m times gets m calls and, after one unsubscribe, m-1.
C12_NoDeduplication ==
    [][ /\ kind' = "subscribe" =>
             \A t \in EventTypes, h \in HandlerIds :
                Subscribe(t, h) =>
                   Count(h, Registered(handlers', t)) = Count(h, Registered(handlers, t)) + 1
        /\ kind' = "unsubscribe" =>
             \A t \in EventTypes, h \in HandlerIds :
                (Unsubscribe(t, h) /\ Count(h, Registered(handlers, t)) >= 1) =>
                   Count(h, Registered(handlers', t)) = Count(h, Registered(handlers, t)) - 1
        /\ (kind' = "publish" /\ pc' = "returned") =>
             \A h \in HandlerIds :
                Invoked(h, log') = Count(h, Registered(handlers', queue'[1].type))
      ]_vars

\* C12 witness: H1 subscribed to T twice, one T event published, H1 called
\* twice.
C12_Witness ==
    /\ pc = "returned"
    /\ kind = "publish"
    /\ queue[1].type = "T"
    /\ Registered(handlers, "T") = <<"H1", "H1">>
    /\ Len(log) = 2
    /\ \A i \in 1..2 : log[i].handler = "H1"

\* C14: when clear_handlers() has returned, get_handlers_count() is 0 and
\* has_handlers(T) is false for every T; a publish on a registry without
\* entries invokes nobody; and a publish after later subscribes invokes
\* exactly the handlers then registered.
C14_ClearEmptiesRegistry ==
    /\ kind = "clear_handlers"
          => /\ pc = "returned"
             /\ TotalCount(handlers) = 0
             /\ \A t \in EventTypes : ~HasHandlers(handlers, t)
    /\ (kind \in {"publish", "publish_all"} /\ TotalCount(handlers) = 0)
          => log = <<>>
    /\ (kind \in {"publish", "publish_all"} /\ pc = "returned")
          => Calls(log) = ExpectedCalls(handlers, queue)

\* C14 witness: clear_handlers() has returned on a bus that had handlers
\* for both types, and nothing is registered any more.
C14_Witness ==
    /\ pc = "returned"
    /\ kind = "clear_handlers"
    /\ before # <<>>
    /\ HasHandlers(before[1], "T")
    /\ HasHandlers(before[1], "U")
    /\ handlers = EmptyRegistry

\* C17: the invocations of one publish / publish_all call never overlap:
\* at most one handle() is running, it is the one started last, and every
\* invocation started before it has returned or raised.
C17_SequentialDispatch ==
    /\ \A i \in 1..Len(log) :
          log[i].outcome = "running" => (i = Len(log) /\ pc = "in_handler")
    /\ pc = "in_handler" => (log # <<>> /\ log[Len(log)].outcome = "running")

\* C17 witness: the second handler of an event is running (suspended in
\* its handle) after the first one raised.
C17_Witness ==
    /\ pc = "in_handler"
    /\ Len(log) = 2
    /\ log[1].outcome = "exception"
    /\ log[2].outcome = "running"
    /\ log[1].event = log[2].event
    /\ log[1].handler # log[2].handler

\* C13: the registry of a bus changes only by a subscribe or unsubscribe
\* made on that very bus (or by the reset that clears it as the old
\* singleton), so a subscribe on A never changes what B holds; and a
\* publish on A invokes exactly the handlers A's registry holds for the
\* event's class, hence never a handler subscribed only on B.
C13_BusesIndependent ==
    [][ /\ \A b \in Constructed :
             Reg(buses', b) # Reg(buses, b)
                => \/ \E t \in BusEventTypes, h \in HandlerIds :
                         SubscribeOn(b, t, h) \/ UnsubscribeOn(b, t, h)
                   \/ \E m \in Modules : ResetEventBus(m) /\ globals[m] = b
        /\ bret'.op = "publish" =>
             \A a \in Constructed, t \in BusEventTypes :
                PublishOn(a, t) => bret'.invoked = Registered(Reg(buses, a), t)
      ]_vars

\* C13 witness: H1 is subscribed on bus 1 only, H2 on bus 2 only, and the
\* publish on bus 1 invoked H1 alone.
C13_Witness ==
    /\ made >= 2
    /\ Registered(Reg(buses, 1), "T") = <<"H1">>
    /\ Registered(Reg(buses, 2), "T") = <<"H2">>
    /\ bret = BusOp("publish", 1, "T", <<"H1">>)

\* C20: get_event_bus() of a module returns the module's singleton: the
\* bus it holds if it holds one (nothing is constructed then), else a bus
\* constructed for the occasion, with an empty registry.  The singleton is
\* replaced only by the module's reset, which installs a bus that did not
\* exist before, with zero handlers, and leaves the bus it replaces with
\* zero handlers too.
C20_SingletonAndReset ==
    [][ \A m \in Modules :
          /\ (bret'.op = "get" /\ GetEventBus(m))
                => /\ bret'.bus = globals'[m]
                   /\ globals[m] # 0 => (globals'[m] = globals[m] /\ made' = made)
                   /\ globals[m] = 0 => /\ globals'[m] \notin Constructed \cup {0}
                                        /\ TotalCount(Reg(buses', globals'[m])) = 0
          /\ globals'[m] # globals[m]
                => (ResetEventBus(m) \/ (globals[m] = 0 /\ GetEventBus(m)))
          /\ (bret'.op = "reset" /\ ResetEventBus(m))
                => /\ globals'[m] \notin Constructed \cup {0}
                   /\ TotalCount(Reg(buses', globals'[m])) = 0
                   /\ globals[m] # 0 => TotalCount(Reg(buses', globals[m])) = 0
      ]_vars

\* C20 witness: a reset has replaced bus 2 by bus 3 as the domain module's
\* singleton; neither holds a handler, the infrastructure module has no
\* singleton yet, and bus 1, constructed apart, still holds its two
\* handlers.
C20_Witness ==
    /\ bret = BusOp("reset", 2, None, <<>>)
    /\ made = 3
    /\ globals["domain"] = 3
    /\ globals["infra"] = 0
    /\ TotalCount(Reg(buses, 1)) = 2
    /\ TotalCount(Reg(buses, 2)) = 0
    /\ TotalCount(Reg(buses, 3)) = 0

\* Every aggregate of the batch has an empty pending list.
BatchDrained == \A i \in 1..Len(batch) : lists[batch[i]] = <<>>
BatchCall == pkind = "from_aggregates"

\* C15 (as stated): a batch publish in which a handler failed, whatever the
\* failure, still returns with every aggregate of the list drained.
C15_FailureNeverBlocks ==
    (BatchCall /\ ppc \in {"returned", "raised"})
        => (ppc = "returned" /\ BatchDrained)

\* C15 (amended): publish_events_from_aggregates hands the pending events
\* of the aggregates to the bus in the order of the list, one publish_all
\* per aggregate that has events, each with that aggregate's events only
\* and each after the previous one has returned and its aggregate was
\* cleared; a publish_all in which a handler raised an Exception returns
\* and the following aggregates are dispatched, and on return every
\* aggregate of the list is drained.  Only a BaseException that is no
\* Exception ends the batch early, with that error.
C15_BatchInOrder ==
    BatchCall =>
        /\ \A k \in 1..Len(bus_calls) :
              /\ bus_calls[k].pos \in 1..Len(batch)
              /\ bus_calls[k].events # <<>>
              /\ \A n \in 1..Len(bus_calls[k].events) :
                    bus_calls[k].events[n] = PendingEvent(batch[bus_calls[k].pos], n)
              /\ k > 1 => /\ bus_calls[k-1].pos < bus_calls[k].pos
                          /\ bus_calls[k-1].outcome \in {"ok", "exception"}
        /\ ppc = "in_bus" =>
              /\ bus_calls[Len(bus_calls)].pos = bi
              /\ bus_calls[Len(bus_calls)].events = lists[batch[bi]]
              /\ \A i \in 1..(bi - 1) : lists[batch[i]] = <<>>
        /\ ppc = "returned" =>
              /\ BatchDrained
              /\ \A k \in 1..Len(bus_calls) : bus_calls[k].outcome \in {"ok", "exception"}
        /\ ppc = "raised" => bus_calls[Len(bus_calls)].outcome = "base_exception"

\* C15 witness: a batch of two aggregates has returned; a handler raised an
\* Exception during the first aggregate's events, the second aggregate was
\* dispatched all the same, and both are drained.
C15_Witness ==
    /\ BatchCall
    /\ ppc = "returned"
    /\ batch = <<"a1", "a2">>
    /\ Len(bus_calls) = 2
    /\ bus_calls[1].outcome = "exception"
    /\ Len(bus_calls[1].events) = 2
    /\ bus_calls[2].outcome = "ok"
    /\ BatchDrained

\* C16: publish_events_from_aggregate on an aggregate without pending
\* events returns at once, with no call made to the bus and nothing
\* changed; on an aggregate with pending events it calls publish_all once,
\* with all of them, and never a second time.
C16_EmptyIsNoOp ==
    [][ pkind' = "from_aggregate" =>
          /\ Len(bus_calls') <= 1
          /\ \A a \in BatchAggregates :
                PublishOne(a) =>
                   IF lists[a] = <<>>
                   THEN /\ bus_calls' = <<>>
                        /\ ppc' = "returned"
                        /\ lists' = lists
                        /\ handlers' = handlers
                   ELSE /\ bus_calls' = <<RecordedCall(1, lists[a])>>
                        /\ ppc' = "in_bus"
      ]_vars

\* C16 witness: the call has returned for a1, which has nothing pending,
\* with no call made to the bus, while a2 keeps its pending events.
C16_Witness ==
    /\ pkind = "from_aggregate"
    /\ ppc = "returned"
    /\ batch = <<"a1">>
    /\ bus_calls = <<>>
    /\ lists["a1"] = <<>>
    /\ Len(lists["a2"]) = 2

\* C18: the list get_domain_events() returns holds the pending events at
\* the time of the call, and whatever its holder does to it leaves every
\* aggregate's pending sequence alone: a pending sequence changes only by
\* an append made through its aggregate or by a clear of that aggregate.
C18_ReturnsCopy ==
    [][ /\ pkind' = "mutate" =>
             \A a \in BatchAggregates : lists'[a] = lists[a]
        /\ pkind' = "get" =>
             \A a \in BatchAggregates :
                /\ lists'[a] = lists[a]
                /\ GetEvents(a) => lists'[held'] = lists[a]
        /\ \A a \in BatchAggregates :
             lists'[a] # lists[a] =>
                \/ AddEvent(a) /\ lists'[a] = Append(lists[a], PendingEvent(a, Len(lists[a]) + 1))
                \/ ClearEvents(a) /\ lists'[a] = <<>>
                \/ ppc = "in_bus" /\ batch[bi] = a /\ lists'[a] = <<>>
      ]_vars

\* C18 witness: the caller has changed the list it got from a1 (it no
\* longer equals a1's pending sequence), and a1 still has its two events.
C18_Witness ==
    /\ pkind = "mutate"
    /\ held = "copy"
    /\ lists["a1"] = <<PendingEvent("a1", 1), PendingEvent("a1", 2)>>
    /\ lists["copy"] = <<PendingEvent("a1", 2), ForeignEvent>>

\* C19: clear_domain_events() returns without an error whatever the
\* aggregate holds, leaves get_domain_events() empty and the other lists
\* alone, and a second clear right after it changes nothing.
C19_ClearIdempotent ==
    [][ pkind' = "clear" =>
          \A a \in BatchAggregates :
             ClearEvents(a) =>
                /\ ppc' = "returned"
                /\ GetDomainEvents(lists', a) = <<>>
                /\ \A l \in ListIds \ {a} : lists'[l] = lists[l]
                /\ ClearDomainEvents(lists', a) = lists'
                /\ (pkind = "clear" /\ batch = <<a>>) => lists' = lists
      ]_vars

\* C19 witness: a1 has been cleared; the list taken from it before still
\* shows the two events it had, and a2 keeps its own.
C19_Witness ==
    /\ pkind = "clear"
    /\ batch = <<"a1">>
    /\ lists["a1"] = <<>>
    /\ lists["copy"] = <<PendingEvent("a1", 1), PendingEvent("a1", 2)>>
    /\ lists["a2"] # <<>>

\* The registry of bus b, empty while b is not constructed.
RegOf(bs, b) == IF b \in DOMAIN bs THEN Reg(bs, b) ELSE EmptyRegistry

\* How many handlers of hs are objects of the bootstrap's handler classes.
Bootstrapped(hs) == Len(hs) - OfClass("FunctionHandler", hs)

\* C21: every run of register_all_event_handlers on a bus adds, for every
\* event class it registers, as many handlers as a single run on an empty
\* bus gives that class, whatever the bus already holds; so n runs without
\* a clear in between leave n times the single-run count, and a publish
\* then invokes n times the single-run count of bootstrap handlers.
C21_BootstrapDuplicates ==
    [][ /\ bret'.op = "register_all" =>
             LET b == bret'.bus
             IN /\ Runs(RegOf(buses', b)) = Runs(RegOf(buses, b)) + 1
                /\ \A t \in RegisteredTypes :
                      GetHandlersCount(RegOf(buses', b), t)
                         = GetHandlersCount(RegOf(buses, b), t) + PerRun(t)
        /\ (bret'.op = "dispatch" /\ ~bret'.raised) =>
             LET reg == RegOf(buses', bret'.bus)
             IN /\ Bootstrapped(bret'.invoked) = Runs(reg) * PerRun(bret'.type)
                /\ \A t \in RegisteredTypes :
                      Bootstrapped(GetHandlers(reg, t)) = Runs(reg) * PerRun(t)
      ]_vars

\* C21 witness: the bootstrap ran twice on the infrastructure singleton;
\* PetCreatedEvent has twelve handlers there, PetDeletedEvent eight, and a
\* publish of a PetCreatedEvent invoked twelve.
C21_Witness ==
    /\ bret.op = "dispatch"
    /\ bret.via = "injected"
    /\ bret.bus = globals["infra"]
    /\ Runs(Reg(buses, bret.bus)) = 2
    /\ GetHandlersCount(Reg(buses, bret.bus), "PetCreatedEvent") = 12
    /\ GetHandlersCount(Reg(buses, bret.bus), "PetDeletedEvent") = 8
    /\ Len(bret.invoked) = 12

\* C22: subscribe_to_event(t)(f) appends one FunctionHandler closed over f
\* to the list of t on the domain module's singleton bus, changes no other
\* list and no other bus, and returns f.  A later publish of a t event on
\* that bus invokes the registered handlers in registration order, the
\* wrapper (hence f) once, at its place; when f raises an Exception the
\* handlers after the wrapper are still invoked and the publish returns,
\* and when f raises a BaseException that is no Exception the publish
\* stops at the wrapper and raises, as with any handler object.
C22_DecoratorIsSubscribe ==
    [][ /\ bret'.op = "subscribe_to_event" =>
             LET b == bret'.bus
                 t == bret'.type
                 new == GetHandlers(RegOf(buses', b), t)
                 old == GetHandlers(RegOf(buses, b), t)
             IN /\ b = globals'["domain"]
                /\ Len(new) = Len(old) + 1
                /\ SubSeq(new, 1, Len(old)) = old
                /\ new[Len(new)].cls = "FunctionHandler"
                /\ new[Len(new)].func = Decorated[t]
                /\ bret'.returned = Decorated[t]
                /\ \A u \in RegisteredTypes \ {t} :
                      GetHandlers(RegOf(buses', b), u) = GetHandlers(RegOf(buses, b), u)
                /\ \A a \in DOMAIN buses : a # b => Reg(buses', a) = Reg(buses, a)
        /\ bret'.op = "dispatch" =>
             LET hs == GetHandlers(RegOf(buses', bret'.bus), bret'.type)
                 w == WrapperAt(hs)
             IN /\ IsPrefix(bret'.invoked, hs)
                /\ w # 0 =>
                     /\ OfClass("FunctionHandler", bret'.invoked) = 1
                     /\ bret'.invoked[w].func = Decorated[bret'.type]
                     /\ bret'.outcome \in {"ok", "exception"}
                           => (bret'.invoked = hs /\ ~bret'.raised)
                     /\ bret'.outcome = "base_exception"
                           => (bret'.invoked = SubSeq(hs, 1, w) /\ bret'.raised)
      ]_vars

\* C22 witness: on the domain singleton log_pet_creation was decorated
\* between two runs of the bootstrap registration; a PetCreatedEvent
\* published through the default publisher reached all thirteen handlers,
\* the wrapper seventh, although the function raised an Exception.
C22_Witness ==
    /\ bret.op = "dispatch"
    /\ bret.via = "default"
    /\ bret.bus = globals["domain"]
    /\ bret.outcome = "exception"
    /\ ~bret.raised
    /\ Len(bret.invoked) = 13
    /\ WrapperAt(bret.invoked) = 7
    /\ bret.invoked[7].func = "log_pet_creation"

\* C29: the bus the bootstrap registration populates by default, the bus a
\* publisher constructed without a bus resolves and the bus the decorator
\* subscribes on are one object; so a publish through the default
\* publisher invokes the bootstrap handlers registered for the event's
\* class, and a publish through the injected publisher invokes the
\* decorated function registered for it.
C29_OneDefaultBus ==
    /\ \A r, q \in Refs : (globals[r] # 0 /\ globals[q] # 0) => globals[r] = globals[q]
    /\ (bret.op = "dispatch" /\ ~bret.raised /\ bret.via = "default")
          => Bootstrapped(bret.invoked)
                = Bootstrapped(GetHandlers(RegOf(buses, globals["infra"]), bret.type))
    /\ (bret.op = "dispatch" /\ ~bret.raised /\ bret.via = "injected")
          => OfClass("FunctionHandler", bret.invoked)
                = OfClass("FunctionHandler",
                          GetHandlers(RegOf(buses, globals["domain"]), bret.type))

\* C23: get_handlers_count(T) is the number of entries registered for T:
\* a subscribe to T raises it by one, an unsubscribe of a handler
\* registered for T lowers it by one, any other unsubscribe leaves it, a
\* clear makes it zero, and no call changes the count of another class
\* (but the clear).  After every such call get_handlers_count() is the sum
\* of the counts of all classes, and has_handlers(T) holds exactly when
\* get_handlers_count(T) > 0.
C23_RegistryAccounting ==
    [][ kind' \in {"subscribe", "unsubscribe", "clear_handlers"} =>
          /\ TotalCount(handlers')
                = GetHandlersCount(handlers', "T") + GetHandlersCount(handlers', "U")
          /\ \A t \in EventTypes :
                /\ GetHandlersCount(handlers', t) = Len(Registered(handlers', t))
                /\ HasHandlers(handlers', t) <=> GetHandlersCount(handlers', t) > 0
          /\ \A t \in EventTypes, h \in HandlerIds :
                /\ Subscribe(t, h) =>
                      \A u \in EventTypes :
                         GetHandlersCount(handlers', u)
                            = GetHandlersCount(handlers, u) + (IF u = t THEN 1 ELSE 0)
                /\ Unsubscribe(t, h) =>
                      \A u \in EventTypes :
                         GetHandlersCount(handlers', u)
                            = GetHandlersCount(handlers, u)
                                 - (IF u = t /\ Count(h, Registered(handlers, t)) > 0
                                    THEN 1 ELSE 0)
          /\ ClearHandlers =>
                \A u \in EventTypes : GetHandlersCount(handlers', u) = 0
      ]_vars

\* C23 witness: the last handler of T was unsubscribed: T keeps its key
\* with an empty list, its count is zero and has_handlers(T) is false,
\* while U still has a handler and the total is one.
C23_Witness ==
    /\ pc = "returned"
    /\ kind = "unsubscribe"
    /\ before = <<[T |-> <<"H1">>, U |-> <<"H2">>]>>
    /\ "T" \in DOMAIN handlers
    /\ GetHandlersCount(handlers, "T") = 0
    /\ ~HasHandlers(handlers, "T")
    /\ HasHandlers(handlers, "U")
    /\ TotalCount(handlers) = 1

\* C24: an aggregate starts with no pending events.  add_domain_event
\* puts the event after those already pending and clear_domain_events
\* leaves none, so that get_domain_events() is at any time the events
\* added since the last clear, in the order they were added;
\* get_domain_events_count() is its length and has_domain_events() holds
\* exactly when that count is above zero.
C24_AggregateAccrual ==
    /\ \A a \in BatchAggregates :
          GetDomainEvents(lists, a) = <<>> /\ ~HasDomainEvents(lists, a)
    /\ [][ pkind' \in {"add", "clear"} =>
             \A a \in BatchAggregates :
                /\ AddEvent(a) =>
                      /\ Len(GetDomainEvents(lists', a)) = Len(GetDomainEvents(lists, a)) + 1
                      /\ SubSeq(GetDomainEvents(lists', a), 1, Len(lists[a]))
                            = GetDomainEvents(lists, a)
                      /\ \A i \in 1..Len(lists[a]) :
                            GetDomainEvents(lists', a)[Len(lists'[a])] # lists[a][i]
                /\ ClearEvents(a) => GetDomainEvents(lists', a) = <<>>
                /\ GetDomainEvents(lists', a)
                      = [n \in 1..Len(lists'[a]) |-> PendingEvent(a, n)]
                /\ GetDomainEventsCount(lists', a) = Len(GetDomainEvents(lists', a))
                /\ HasDomainEvents(lists', a) <=> GetDomainEventsCount(lists', a) > 0
         ]_vars

\* C24 witness: the second event was just added to a1, which holds both
\* in the order they were added; a2 has none.
C24_Witness ==
    /\ pkind = "add"
    /\ ppc = "returned"
    /\ batch = <<"a1">>
    /\ GetDomainEvents(lists, "a1") = <<PendingEvent("a1", 1), PendingEvent("a1", 2)>>
    /\ GetDomainEventsCount(lists, "a1") = 2
    /\ HasDomainEvents(lists, "a1")
    /\ ~HasDomainEvents(lists, "a2")

\* C25: change_owner with a non-empty owner id sets owner_id to it and
\* appends exactly one PetOwnershipChangedEvent carrying the pet id, the
\* owner before the call and the new owner; with an empty or missing id
\* it raises and leaves owner_id and the pending events as they were.
C25_ChangeOwner ==
    [][ pret'.op = "change_owner" =>
          \A new \in OwnerArgs :
             ChangeOwner(new) =>
                IF new \in OwnerIds
                THEN /\ pret'.result = "ok"
                     /\ owner' = new
                     /\ pevents' = Append(pevents, PetOwnershipChangedEvent(pid, owner, new))
                ELSE /\ pret'.result # "ok"
                     /\ owner' = owner
                     /\ pevents' = pevents
      ]_vars

\* The handlers the log lg shows invoked with event e, in call order.
RECURSIVE InvokedWith(_, _)
InvokedWith(lg, e) ==
    IF lg = <<>> THEN <<>>
    ELSE IF lg[1].event = e
         THEN <<lg[1].handler>> \o InvokedWith(Tail(lg), e)
         ELSE InvokedWith(Tail(lg), e)

\* Whether event e is in the list l.
Holds(l, e) == \E i \in 1..Len(l) : l[i] = e

\* C26: when publish_events_from_aggregate has returned, every event that
\* was appended to the aggregate while the call was in flight is still
\* pending, or a handler call was made for it.
C26_NoEventClearedUndispatched ==
    (lpc = "returned" /\ lkind = "from_aggregate")
        => \A i \in 1..Len(llate) :
              Holds(lpend, llate[i]) \/ InvokedWith(llog, llate[i]) # <<>>

\* C27: a publish(e) that has returned invoked exactly the handlers that
\* were registered for the class of e when it was called, each once per
\* registration and in registration order, whatever was subscribed or
\* unsubscribed in the meantime.
C27_StableHandlerSet ==
    (lpc = "returned" /\ lkind = "publish")
        => InvokedWith(llog, lq[1]) = lstart

\* C28: once a clear_handlers() made during a publish has returned, that
\* publish starts no more handler through a registration the clear
\* removed: a handler it invokes from then on is registered for the
\* event's class at the time it is invoked.
C28_ClearTakesEffect ==
    [][ (lclr /\ Len(llog') = Len(llog) + 1)
          => Count(llog'[Len(llog')].handler,
                   GetHandlers(lreg, llog'[Len(llog')].event.type)) > 0
      ]_vars

\* The PetCreatedEvent of the pet with id p was handed to the event bus.
Announced(p) == \E e \in cdisp : e.type = "PetCreatedEvent" /\ e.pet_id = p

\* C30: once a creation request has stored a pet and returned it, the
\* PetCreatedEvent of that pet is eventually handed to the event bus for
\* dispatch; it does not stay pending on the returned pet for ever.
C30_CreationAnnounced ==
    \A n \in 1..MaxCreates :
        (cpc = "returned" /\ cpet.id = RowIds[n]) ~> Announced(RowIds[n])
====
